---- MODULE Spec2Model ----
(***************************************************************************)
(* Model of the Markdown-to-inline-styled-HTML renderer: the style         *)
(* serializer (cssPropertiesToString), the code theme lookups, the two     *)
(* block tokenizer extensions and the MarkdownRenderer overrides.          *)
(*                                                                         *)
(* Strings are sequences of one-character strings, so that key             *)
(* conversion, joining, trimming and regular-expression matching are       *)
(* computed character by character as the code computes them.              *)
(***************************************************************************)
EXTENDS Integers, Sequences, FiniteSets, TLC

VARIABLES
    style,        \* the style object handed to cssPropertiesToString
    cssResult,    \* the record of the cssPropertiesToString call
    codeThemes,   \* the theme table (config/code-themes)
    themeResult,  \* the record of the theme lookup call
    src,          \* the source text handed to a block tokenizer extension
    tokResult,    \* the record of the tokenizer extension's start and tokenizer
    instances,    \* the MarkdownRenderer objects constructed so far (their options)
    extensions,   \* the extension registry of the shared marked instance
    katexBad,     \* the characters on which katex.renderToString throws
    rendered      \* the record of the last node rendered

cssVars == <<style, cssResult>>
themeVars == <<codeThemes, themeResult>>
tokVars == <<src, tokResult>>
renderVars == <<instances, extensions, katexBad, rendered>>
vars == <<style, cssResult, codeThemes, themeResult, src, tokResult,
          instances, extensions, katexBad, rendered>>

(***************************************************************************)
(* Bounds of the model.                                                    *)
(***************************************************************************)
MaxEntries == 3

(***************************************************************************)
(* Characters and strings.                                                 *)
(***************************************************************************)
UpperCase ==
    <<"A", "B", "C", "D", "E", "F", "G", "H", "I", "J", "K", "L", "M",
      "N", "O", "P", "Q", "R", "S", "T", "U", "V", "W", "X", "Y", "Z">>

LowerCase ==
    <<"a", "b", "c", "d", "e", "f", "g", "h", "i", "j", "k", "l", "m",
      "n", "o", "p", "q", "r", "s", "t", "u", "v", "w", "x", "y", "z">>

\* /[A-Z]/ on one character.
IsUpper(c) == \E i \in 1..Len(UpperCase) : UpperCase[i] = c

\* String.prototype.toLowerCase on one character.
ToLowerChar(c) ==
    IF IsUpper(c)
    THEN LowerCase[CHOOSE i \in 1..Len(UpperCase) : UpperCase[i] = c]
    ELSE c

\* String.prototype.toLowerCase.
ToLowerCase(s) == [i \in 1..Len(s) |-> ToLowerChar(s[i])]

\* key.replace(/([A-Z])/g, '-$1'): a '-' in front of every upper-case letter.
RECURSIVE HyphenateUpper(_)
HyphenateUpper(s) ==
    IF s = <<>> THEN <<>>
    ELSE (IF IsUpper(Head(s)) THEN <<"-", Head(s)>> ELSE <<Head(s)>>)
         \o HyphenateUpper(Tail(s))

\* String.prototype.includes.
Includes(s, sub) ==
    \E i \in 0..(Len(s) - Len(sub)) :
        \A j \in 1..Len(sub) : s[i + j] = sub[j]

\* Array.prototype.join.
RECURSIVE Join(_, _)
Join(parts, sep) ==
    IF parts = <<>> THEN <<>>
    ELSE IF Len(parts) = 1 THEN parts[1]
    ELSE parts[1] \o sep \o Join(Tail(parts), sep)

Digits == <<"0", "1", "2", "3", "4", "5", "6", "7", "8", "9">>

\* The decimal digits of a natural number.
RECURSIVE NatToString(_)
NatToString(n) ==
    IF n < 10 THEN <<Digits[n + 1]>>
    ELSE NatToString(n \div 10) \o <<Digits[(n % 10) + 1]>>

\* Number-to-string conversion of a template literal.  A number is held in
\* tenths (16 is 1.6, 120 is 12), which covers the integers and the one-digit
\* fractions styles use.
NumberToString(tenths) ==
    LET a == IF tenths < 0 THEN 0 - tenths ELSE tenths
        body == NatToString(a \div 10)
                \o (IF a % 10 = 0 THEN <<>> ELSE <<".", Digits[(a % 10) + 1]>>)
    IN  (IF tenths < 0 THEN <<"-">> ELSE <<>>) \o body

(***************************************************************************)
(* Style values and style objects.  A style object is the sequence of its  *)
(* own entries in insertion order (the order Object.entries reports).      *)
(***************************************************************************)
Undefined == [t |-> "undefined", n |-> 0, s |-> <<>>]
Null == [t |-> "null", n |-> 0, s |-> <<>>]
Num(tenths) == [t |-> "number", n |-> tenths, s |-> <<>>]
Str(chars) == [t |-> "string", n |-> 0, s |-> chars]

\* `${value}` for a defined value.
ValueToString(v) == IF v.t = "number" THEN NumberToString(v.n) ELSE v.s

MediaKey ==
    <<"@", "m", "e", "d", "i", "a", " ", "(", "m", "a", "x", "-", "w", "i",
      "d", "t", "h", ":", " ", "7", "6", "8", "p", "x", ")">>
LineHeightName == <<"l", "i", "n", "e", "-", "h", "e", "i", "g", "h", "t">>
Px == <<"p", "x">>

\* The map callback of cssPropertiesToString: one declaration, or '' for the
\* media query entry.
DeclarationMutEquals(e) ==
    IF e.key = MediaKey THEN <<>>
    ELSE LET cssKey == ToLowerCase(HyphenateUpper(e.key))
             value == IF e.value.t = "number" /\ cssKey # LineHeightName
                      THEN NumberToString(e.value.n) \o Px
                      ELSE ValueToString(e.value)
         IN  cssKey \o <<":", " ">> \o value

Declaration(e) ==
    IF e.key = MediaKey THEN <<>>
    ELSE LET cssKey == ToLowerCase(HyphenateUpper(e.key))
             value == IF e.value.t = "number" /\ ~Includes(cssKey, LineHeightName)
                      THEN NumberToString(e.value.n) \o Px
                      ELSE ValueToString(e.value)
         IN  cssKey \o <<":", " ">> \o value

IsDefined(e) == e.value.t \notin {"undefined", "null"}

NonEmpty(s) == s # <<>>

Keep(s) == TRUE

\* .filter(Boolean) on the mapped declarations.
FilterBooleanMut(decls) == SelectSeq(decls, Keep)

FilterBoolean(decls) == SelectSeq(decls, NonEmpty)

\* cssPropertiesToString(style).  The argument is absent (the default {} is
\* used), null, or an object.
cssPropertiesToString(st) ==
    IF st.kind = "null" THEN <<>>
    ELSE LET entries == IF st.kind = "absent" THEN <<>> ELSE st.entries
             defined == SelectSeq(entries, IsDefined)
             mapped == [i \in 1..Len(defined) |-> Declaration(defined[i])]
         IN  Join(FilterBoolean(mapped), <<";">>)

(***************************************************************************)
(* Inputs of the style serializer.                                         *)
(***************************************************************************)
KeyColor == <<"c", "o", "l", "o", "r">>
KeyFontSize == <<"f", "o", "n", "t", "S", "i", "z", "e">>
KeyLineHeight == <<"l", "i", "n", "e", "H", "e", "i", "g", "h", "t">>
KeyMarginTop == <<"m", "a", "r", "g", "i", "n", "T", "o", "p">>
KeyLineHeightStep ==
    <<"l", "i", "n", "e", "H", "e", "i", "g", "h", "t", "S", "t", "e", "p">>
Red == <<"r", "e", "d">>

SampleKeys == {KeyColor, KeyFontSize, KeyLineHeight, KeyLineHeightStep, MediaKey}
SampleValues == {Undefined, Null, Num(0), Num(16), Str(Red)}

Entry(k, v) == [key |-> k, value |-> v]

\* The sequences of length n over a set, and the ones that hold no element
\* twice.
StringsOfLen(chars, n) == [1..n -> chars]

NoRepeat(s) == \A i, j \in 1..Len(s) : s[i] = s[j] => i = j

\* The style object whose i-th entry is keys[i]: values[i].
ObjectOf(keys, values) == SubSeq([i \in 1..Len(keys) |-> Entry(keys[i], values[i])], 1, Len(keys))

\* A call's record: its state, the argument as it was passed, the value
\* returned.
Pending == [state |-> "pending", arg |-> <<>>, value |-> <<>>]
Returned(a, v) == [state |-> "returned", arg |-> a, value |-> v]

CssIdle == style = [kind |-> "absent", entries |-> <<>>] /\ cssResult = Pending
ThemeIdle == codeThemes = <<>> /\ themeResult = [state |-> "pending"]
TokIdle == src = <<>> /\ tokResult = [state |-> "pending"]
NoExtensions ==
    [renderers |-> [latexBlock |-> <<>>, mermaidBlock |-> <<>>],
     block |-> <<>>, startBlock |-> <<>>]
RenderIdle ==
    /\ instances = <<>>
    /\ extensions = NoExtensions
    /\ katexBad = {}
    /\ rendered = [kind |-> "none"]

\* The argument is absent, null, or an object of at most MaxEntries entries
\* that holds a key once.
InitCss ==
    /\ \/ style \in {[kind |-> "absent", entries |-> <<>>],
                      [kind |-> "null", entries |-> <<>>]}
       \/ \E n \in 0..MaxEntries :
             \E keys \in StringsOfLen(SampleKeys, n), values \in StringsOfLen(SampleValues, n) :
                /\ NoRepeat(keys)
                /\ style = [kind |-> "object", entries |-> ObjectOf(keys, values)]
    /\ cssResult = Pending
    /\ ThemeIdle
    /\ TokIdle
    /\ RenderIdle

\* One call of cssPropertiesToString(style).
CallCssPropertiesToString ==
    /\ cssResult = Pending
    /\ cssResult' = Returned(style, cssPropertiesToString(style))
    /\ UNCHANGED <<style, themeVars, tokVars, renderVars>>

NextCss == CallCssPropertiesToString

SpecCss == InitCss /\ [][NextCss]_vars

(***************************************************************************)
(* Reading a declaration string back: its segments between ';' and, in a   *)
(* segment, the property name before and the value after the first ': '.   *)
(***************************************************************************)
RECURSIVE SegmentsFrom(_, _)
SegmentsFrom(s, acc) ==
    IF s = <<>> THEN <<acc>>
    ELSE IF Head(s) = ";" THEN <<acc>> \o SegmentsFrom(Tail(s), <<>>)
    ELSE SegmentsFrom(Tail(s), Append(acc, Head(s)))

Segments(s) == IF s = <<>> THEN <<>> ELSE SegmentsFrom(s, <<>>)

\* The position of the first ': ' of a segment (0: none).
ColonAt(d) ==
    IF \E i \in 1..(Len(d) - 1) : d[i] = ":" /\ d[i + 1] = " "
    THEN CHOOSE i \in 1..(Len(d) - 1) :
            /\ d[i] = ":" /\ d[i + 1] = " "
            /\ \A j \in 1..(i - 1) : ~(d[j] = ":" /\ d[j + 1] = " ")
    ELSE 0

NameOf(d) == SubSeq(d, 1, ColonAt(d) - 1)
ValueOf(d) == SubSeq(d, ColonAt(d) + 2, Len(d))

\* The kebab-case name the claims speak of: position by position, an
\* upper-case letter of the key gives '-' and its lower-case form.
UppersBefore(key, i) == Cardinality({j \in 1..(i - 1) : IsUpper(key[j])})

IsKebabOf(name, key) ==
    /\ Len(name) = Len(key) + UppersBefore(key, Len(key) + 1)
    /\ \A i \in 1..Len(key) :
          LET at == i + UppersBefore(key, i)
          IN  IF IsUpper(key[i])
              THEN name[at] = "-" /\ name[at + 1] = ToLowerChar(key[i])
              ELSE name[at] = key[i]

\* The entries the claims say are emitted.
Emitted(e) == e.value # Undefined /\ e.value # Null /\ e.key # MediaKey

EmittedEntries(st) ==
    IF st.kind = "object" THEN SelectSeq(st.entries, Emitted) ELSE <<>>

(***************************************************************************)
(* C3: cssPropertiesToString returns exactly one declaration               *)
(* 'kebab-key: value' for every entry whose value is neither undefined nor *)
(* null and whose key is not the media query key, in entry order, joined   *)
(* by ';' with no leading, trailing or doubled ';' and no empty            *)
(* declaration; it returns '' when the style is absent, null, empty or     *)
(* has only skipped entries.                                               *)
(***************************************************************************)
C3_OneDeclarationPerEntry ==
    cssResult.state = "returned" =>
        LET decls == Segments(cssResult.value)
            kept == EmittedEntries(cssResult.arg)
        IN  /\ Len(decls) = Len(kept)
            /\ (kept = <<>>) = (cssResult.value = <<>>)
            /\ \A i \in 1..Len(decls) :
                  /\ decls[i] # <<>>
                  /\ ColonAt(decls[i]) > 1
                  /\ IsKebabOf(NameOf(decls[i]), kept[i].key)
                  /\ LET text == ValueToString(kept[i].value)
                     IN  ValueOf(decls[i]) \in
                            {text} \cup (IF kept[i].value.t = "number"
                                         THEN {text \o Px} ELSE {})

\* A call on three entries with the media query entry in the middle.
C3_Witness ==
    /\ cssResult.state = "returned"
    /\ style.kind = "object"
    /\ Len(style.entries) = 3
    /\ style.entries[1] = Entry(KeyFontSize, Num(0))
    /\ style.entries[2] = Entry(MediaKey, Str(Red))
    /\ style.entries[3] = Entry(KeyColor, Str(Red))
    /\ cssResult.value =
          <<"f", "o", "n", "t", "-", "s", "i", "z", "e", ":", " ", "0", "p", "x", ";",
            "c", "o", "l", "o", "r", ":", " ", "r", "e", "d">>

(***************************************************************************)
(* C10: a number is emitted with the suffix 'px' (0 becomes '0px') for     *)
(* every key whose kebab-case form does not contain 'line-height' and as   *)
(* the bare number for every key that does; a string is emitted unchanged; *)
(* the style object passed in is not modified by the call.                 *)
(***************************************************************************)
C10_NumberSuffix ==
    cssResult.state = "returned" =>
        LET decls == Segments(cssResult.value)
            kept == EmittedEntries(cssResult.arg)
        IN  /\ style = cssResult.arg
            /\ Len(decls) = Len(kept)
            /\ \A i \in 1..Len(decls) :
                  LET v == kept[i].value
                      lineHeight == Includes(NameOf(decls[i]), LineHeightName)
                  IN  /\ (v.t = "string") => ValueOf(decls[i]) = v.s
                      /\ (v.t = "number" /\ ~lineHeight) =>
                            ValueOf(decls[i]) = NumberToString(v.n) \o Px
                      /\ (v.t = "number" /\ lineHeight) =>
                            ValueOf(decls[i]) = NumberToString(v.n)
                      /\ (v = Num(0) /\ ~lineHeight) =>
                            ValueOf(decls[i]) = <<"0", "p", "x">>

\* A call emitting 0 as '0px' and 1.6 bare under a key that contains
\* 'line-height' without being it.
C10_Witness ==
    /\ cssResult.state = "returned"
    /\ style.kind = "object"
    /\ style.entries =
          <<Entry(KeyFontSize, Num(0)), Entry(KeyLineHeightStep, Num(16)),
            Entry(KeyColor, Str(Red))>>
    /\ cssResult.value =
          <<"f", "o", "n", "t", "-", "s", "i", "z", "e", ":", " ", "0", "p", "x", ";",
            "l", "i", "n", "e", "-", "h", "e", "i", "g", "h", "t", "-", "s", "t", "e", "p",
            ":", " ", "1", ".", "6", ";",
            "c", "o", "l", "o", "r", ":", " ", "r", "e", "d">>

(***************************************************************************)
(* Theme lookup.  The theme table is an array of [id, theme]; a theme      *)
(* (palette) maps 'background', 'text' and token types to colours.         *)
(***************************************************************************)
KeyBackground == <<"b", "a", "c", "k", "g", "r", "o", "u", "n", "d">>

\* codeThemes.find(t => t.id === theme): the index of the first match, 0 for
\* undefined.
FindThemeMut(table, id) ==
    IF \E i \in 1..Len(table) : table[i].id = id
    THEN CHOOSE i \in 1..Len(table) :
            table[i].id = id /\ \A j \in 1..(i - 1) : table[j].id # id
    ELSE IF table = <<>> THEN 0 ELSE 1

FindTheme(table, id) ==
    IF \E i \in 1..Len(table) : table[i].id = id
    THEN CHOOSE i \in 1..Len(table) :
            table[i].id = id /\ \A j \in 1..(i - 1) : table[j].id # id
    ELSE 0

\* themeConfig.theme[tokenType]: undefined for a property the palette lacks.
PaletteGet(palette, tokenType) ==
    IF tokenType \in DOMAIN palette THEN palette[tokenType] ELSE Undefined

\* Truthiness of a colour value: undefined and '' are falsy.
Truthy(v) == v.t = "string" /\ v.s # <<>>

HexDigits ==
    <<"0", "1", "2", "3", "4", "5", "6", "7", "8", "9", "a", "b", "c", "d", "e", "f">>

IsHexDigit(c) == \E i \in 1..16 : HexDigits[i] = c
HexValue(c) == (CHOOSE i \in 1..16 : HexDigits[i] = c) - 1

NaN == -1

\* parseInt(v, 16) on a string of hex digits and other letters: the value of
\* the longest prefix of hex digits, NaN when that prefix is empty.
RECURSIVE ParseHexPrefix(_, _)
ParseHexPrefix(v, acc) ==
    IF v = <<>> \/ ~IsHexDigit(Head(v)) THEN acc
    ELSE ParseHexPrefix(Tail(v), 16 * acc + HexValue(Head(v)))

ParseInt16(v) ==
    IF v = <<>> \/ ~IsHexDigit(Head(v)) THEN NaN ELSE ParseHexPrefix(v, 0)

\* color.replace('#', ''): the first '#' removed.
RECURSIVE RemoveFirstHash(_)
RemoveFirstHash(color) ==
    IF color = <<>> THEN <<>>
    ELSE IF Head(color) = "#" THEN Tail(color)
    ELSE <<Head(color)>> \o RemoveFirstHash(Tail(color))

\* String.prototype.slice(from, to) with 0-based bounds inside or past the end.
Slice(str, from, to) ==
    SubSeq(str, from + 1, IF to < Len(str) THEN to ELSE Len(str))

\* The three channels isLightColor parses.
ParsedChannels(color) ==
    LET hex == RemoveFirstHash(color)
    IN  IF Len(hex) = 3
        THEN [i \in 1..3 |-> ParseInt16(<<hex[i], hex[i]>>)]
        ELSE <<ParseInt16(Slice(hex, 0, 2)), ParseInt16(Slice(hex, 2, 4)),
               ParseInt16(Slice(hex, 4, 6))>>

\* luminance > 0.7 with luminance = (0.299 r + 0.587 g + 0.114 b) / 255, in
\* integers: 299 r + 587 g + 114 b > 0.7 * 255 * 1000.  For every r, g, b in
\* 0..255 the double-precision evaluation of the source expression compares
\* with 0.7 as the exact value does; a NaN channel makes the comparison false.
LuminanceThreshold == 178500

isLightColorMut(color) ==
    LET p == ParsedChannels(color)
    IN  /\ NaN \notin {p[1], p[2], p[3]}
        /\ 299 * p[1] + 587 * p[2] + 114 * p[3] >= LuminanceThreshold

isLightColor(color) ==
    LET p == ParsedChannels(color)
    IN  /\ NaN \notin {p[1], p[2], p[3]}
        /\ 299 * p[1] + 587 * p[2] + 114 * p[3] > LuminanceThreshold

EmptyStyle == [kind |-> "object", entries |-> <<>>]

getCodeThemeStyles(table, theme) ==
    LET i == FindTheme(table, theme)
    IN  IF i = 0 THEN EmptyStyle
        ELSE [kind |-> "object",
              entries |-> <<Entry(KeyBackground, table[i].theme.background),
                            Entry(KeyColor, table[i].theme.text)>>]

ColorPrefix == <<"c", "o", "l", "o", "r", ":", " ">>

getTokenStylesMut(table, theme, tokenType, forceDarkPalette) ==
    LET i == FindTheme(table, theme)
    IN  IF i = 0 THEN <<>>
        ELSE LET fallback == FindTheme(table, "monokai")
                 chosen == IF forceDarkPalette /\ fallback # 0
                           THEN fallback ELSE i
                 palette == table[chosen].theme
                 own == PaletteGet(palette, tokenType)
                 tokenColor == IF Truthy(own) THEN own ELSE palette.text
             IN  IF ~Truthy(tokenColor) THEN <<>>
                 ELSE ColorPrefix \o tokenColor.s \o <<";">>

getTokenStyles(table, theme, tokenType, forceDarkPalette) ==
    LET i == FindTheme(table, theme)
    IN  IF i = 0 THEN <<>>
        ELSE LET fallback == FindTheme(table, "monokai")
                 chosen == IF /\ forceDarkPalette
                              /\ isLightColor(table[i].theme.background.s)
                              /\ fallback # 0
                           THEN fallback ELSE i
                 palette == table[chosen].theme
                 own == PaletteGet(palette, tokenType)
                 tokenColor == IF Truthy(own) THEN own ELSE palette.text
             IN  IF ~Truthy(tokenColor) THEN <<>>
                 ELSE ColorPrefix \o tokenColor.s \o <<";">>

isLightCodeTheme(table, theme) ==
    LET i == FindTheme(table, theme)
    IN  IF i = 0 THEN FALSE ELSE isLightColor(table[i].theme.background.s)

(***************************************************************************)
(* Inputs of the theme lookups.                                            *)
(***************************************************************************)
MaxThemes == 2

ThemeIds == {"github", "monokai", "nord"}
TokenTypes == {"keyword", "comment", "text", "background"}

White == <<"#", "f", "f", "f">>
Monokai == <<"#", "2", "7", "2", "8", "2", "2">>
\* Luminance exactly 0.7: 299 * 51 + 587 * 255 + 114 * 119 = 178500.
Boundary == <<"#", "3", "f", "7">>
TextA == <<"#", "3", "3", "3">>
KeywordA == <<"#", "d", "7", "3", "a", "4", "9">>

Palette(bg, text, keyword) ==
    [background |-> Str(bg), text |-> text, keyword |-> keyword]

SamplePalettes ==
    { Palette(bg, text, kw) :
        bg \in {White, Monokai},
        text \in {Undefined, Str(TextA)},
        kw \in {Undefined, Str(<<>>), Str(KeywordA)} }

IdsOf(table) == {table[i].id : i \in 1..Len(table)}

\* The table whose i-th theme is ids[i] with palette palettes[i].
TableOf(ids, palettes) ==
    SubSeq([i \in 1..Len(ids) |-> [id |-> ids[i], theme |-> palettes[i]]], 1, Len(ids))

ThemeCall(fn, theme, tokenType, force, v) ==
    [state |-> "returned", fn |-> fn, theme |-> theme, tokenType |-> tokenType,
     forceDarkPalette |-> force, value |-> v]

\* A table of at most MaxThemes themes that holds an id once.
InitTheme ==
    /\ \E n \in 0..MaxThemes :
          \E ids \in StringsOfLen(ThemeIds, n), palettes \in StringsOfLen(SamplePalettes, n) :
             /\ NoRepeat(ids)
             /\ codeThemes = TableOf(ids, palettes)
    /\ themeResult = [state |-> "pending"]
    /\ CssIdle
    /\ TokIdle
    /\ RenderIdle

CallGetCodeThemeStyles ==
    /\ themeResult.state = "pending"
    /\ \E theme \in ThemeIds :
          themeResult' = ThemeCall("getCodeThemeStyles", theme, "", FALSE,
                                   getCodeThemeStyles(codeThemes, theme))
    /\ UNCHANGED <<codeThemes, cssVars, tokVars, renderVars>>

CallGetTokenStyles ==
    /\ themeResult.state = "pending"
    /\ \E theme \in ThemeIds, tokenType \in TokenTypes, force \in BOOLEAN :
          themeResult' = ThemeCall("getTokenStyles", theme, tokenType, force,
                                   getTokenStyles(codeThemes, theme, tokenType, force))
    /\ UNCHANGED <<codeThemes, cssVars, tokVars, renderVars>>

CallIsLightCodeTheme ==
    /\ themeResult.state = "pending"
    /\ \E theme \in ThemeIds :
          themeResult' = ThemeCall("isLightCodeTheme", theme, "", FALSE,
                                   isLightCodeTheme(codeThemes, theme))
    /\ UNCHANGED <<codeThemes, cssVars, tokVars, renderVars>>

NextTheme ==
    \/ CallGetCodeThemeStyles
    \/ CallGetTokenStyles
    \/ CallIsLightCodeTheme

SpecTheme == InitTheme /\ [][NextTheme]_vars

(***************************************************************************)
(* Background colours for the light/dark classification: every 3-digit     *)
(* colour, with and without '#', and the 6-digit colours over a few        *)
(* digits, which include the colours of luminance exactly 0.7.             *)
(***************************************************************************)
HexDigitSet == {HexDigits[i] : i \in 1..16}
SixDigitSet == {"0", "3", "7", "c", "f"}

Backgrounds ==
    { <<a, b, c>> : a \in HexDigitSet, b \in HexDigitSet, c \in HexDigitSet }
    \cup { <<"#", a, b, c>> : a \in HexDigitSet, b \in HexDigitSet, c \in HexDigitSet }
    \cup { <<"#", a, b, c, d, e, f>> :
             a \in SixDigitSet, b \in SixDigitSet, c \in SixDigitSet,
             d \in SixDigitSet, e \in SixDigitSet, f \in SixDigitSet }

InitLuminance ==
    /\ \E bg \in Backgrounds :
          codeThemes = <<[id |-> "github",
                          theme |-> Palette(bg, Str(TextA), Undefined)]>>
    /\ themeResult = [state |-> "pending"]
    /\ CssIdle
    /\ TokIdle
    /\ RenderIdle

NextLuminance == CallIsLightCodeTheme

SpecLuminance == InitLuminance /\ [][NextLuminance]_vars

(***************************************************************************)
(* C4: isLightCodeTheme(theme) is true exactly when the theme's background *)
(* colour, read as hex channels r, g, b in 0..255 (a 3-digit colour being  *)
(* read with each digit doubled), has relative luminance                   *)
(* (0.299 r + 0.587 g + 0.114 b) / 255 strictly greater than 0.7; a colour *)
(* of luminance exactly 0.7 or less is dark.                               *)
(***************************************************************************)
\* The hex digits of a colour written '#rgb', 'rgb' or '#rrggbb'.
DigitsOfColour(c) == IF c # <<>> /\ c[1] = "#" THEN SubSeq(c, 2, Len(c)) ELSE c

Channel(ds, k) ==
    IF Len(ds) = 3 THEN 17 * HexValue(ds[k])
    ELSE 16 * HexValue(ds[2 * k - 1]) + HexValue(ds[2 * k])

C4_LightIffLuminanceAbove07 ==
    (/\ themeResult.state = "returned"
     /\ themeResult.fn = "isLightCodeTheme"
     /\ themeResult.theme \in IdsOf(codeThemes)) =>
        LET bg == codeThemes[FindTheme(codeThemes, themeResult.theme)].theme.background.s
            ds == DigitsOfColour(bg)
            r == Channel(ds, 1)
            g == Channel(ds, 2)
            b == Channel(ds, 3)
        IN  /\ Len(ds) \in {3, 6}
            /\ r \in 0..255 /\ g \in 0..255 /\ b \in 0..255
            /\ themeResult.value = (10 * (299 * r + 587 * g + 114 * b) > 7 * 255 * 1000)

\* The theme whose background has luminance exactly 0.7 is classified dark.
C4_Witness ==
    /\ themeResult.state = "returned"
    /\ themeResult.fn = "isLightCodeTheme"
    /\ themeResult.theme = "github"
    /\ codeThemes[1].id = "github"
    /\ codeThemes[1].theme.background.s = Boundary
    /\ themeResult.value = FALSE

(***************************************************************************)
(* C8: for a theme identifier that is not in the theme table every lookup  *)
(* returns its empty result: getCodeThemeStyles an empty style object,     *)
(* getTokenStyles the empty string for every token type and either value   *)
(* of forceDarkPalette, isLightCodeTheme false.                            *)
(***************************************************************************)
C8_UnknownThemeEmptyResult ==
    (/\ themeResult.state = "returned"
     /\ \A i \in 1..Len(codeThemes) : codeThemes[i].id # themeResult.theme) =>
        /\ themeResult.fn = "getCodeThemeStyles" =>
              themeResult.value = [kind |-> "object", entries |-> <<>>]
        /\ themeResult.fn = "getTokenStyles" => themeResult.value = <<>>
        /\ themeResult.fn = "isLightCodeTheme" => themeResult.value = FALSE

\* getTokenStyles for an unknown theme, forceDarkPalette set and a 'monokai'
\* theme with colours in the table.
C8_Witness ==
    /\ themeResult.state = "returned"
    /\ themeResult.fn = "getTokenStyles"
    /\ themeResult.theme = "nord"
    /\ themeResult.tokenType = "keyword"
    /\ themeResult.forceDarkPalette
    /\ Len(codeThemes) = 2
    /\ codeThemes[1] = [id |-> "github", theme |-> Palette(White, Str(TextA), Str(KeywordA))]
    /\ codeThemes[2].id = "monokai"
    /\ themeResult.value = <<>>

(***************************************************************************)
(* C9: for a known theme getTokenStyles returns 'color: C;' with C taken   *)
(* from the 'monokai' palette if forceDarkPalette is true, the theme's     *)
(* background is light and a 'monokai' theme exists, and from the theme's  *)
(* own palette otherwise; C is the colour of tokenType when the chosen     *)
(* palette defines a non-empty one and the palette's text colour           *)
(* otherwise; the result is '' only when neither exists.                   *)
(***************************************************************************)
PaletteOf(id) == (CHOOSE t \in {codeThemes[i] : i \in 1..Len(codeThemes)} : t.id = id).theme

HasColour(palette, key) ==
    /\ key \in DOMAIN palette
    /\ palette[key] # Undefined
    /\ palette[key].s # <<>>

C9_TokenColourFromChosenPalette ==
    (/\ themeResult.state = "returned"
     /\ themeResult.fn = "getTokenStyles"
     /\ themeResult.theme \in IdsOf(codeThemes)) =>
        LET own == PaletteOf(themeResult.theme)
            useMonokai == /\ themeResult.forceDarkPalette
                          /\ isLightColor(own.background.s)
                          /\ "monokai" \in IdsOf(codeThemes)
            chosen == IF useMonokai THEN PaletteOf("monokai") ELSE own
            tt == themeResult.tokenType
        IN  /\ HasColour(chosen, tt) =>
                themeResult.value = ColorPrefix \o chosen[tt].s \o <<";">>
            /\ (~HasColour(chosen, tt) /\ HasColour(chosen, "text")) =>
                themeResult.value = ColorPrefix \o chosen.text.s \o <<";">>
            /\ (themeResult.value = <<>>) =
                  (~HasColour(chosen, tt) /\ ~HasColour(chosen, "text"))

\* A light theme with no colours of its own, forceDarkPalette set: the colour
\* comes from 'monokai'.
C9_Witness ==
    /\ themeResult.state = "returned"
    /\ themeResult.fn = "getTokenStyles"
    /\ themeResult.theme = "github"
    /\ themeResult.tokenType = "keyword"
    /\ themeResult.forceDarkPalette
    /\ codeThemes =
          <<[id |-> "github", theme |-> Palette(White, Undefined, Undefined)],
            [id |-> "monokai", theme |-> Palette(Monokai, Str(TextA), Str(KeywordA))]>>
    /\ themeResult.value =
          <<"c", "o", "l", "o", "r", ":", " ", "#", "d", "7", "3", "a", "4", "9", ";">>

(***************************************************************************)
(* The formula block tokenizer extension (latexBlock).                     *)
(***************************************************************************)
\* \s on the characters of the model.
IsSpace(c) == c \in {" ", "\n", "\t"}

\* String.prototype.trim.
RECURSIVE TrimStart(_)
TrimStart(str) ==
    IF str # <<>> /\ IsSpace(Head(str)) THEN TrimStart(Tail(str)) ELSE str

RECURSIVE TrimEnd(_)
TrimEnd(str) ==
    IF str # <<>> /\ IsSpace(str[Len(str)])
    THEN TrimEnd(SubSeq(str, 1, Len(str) - 1)) ELSE str

Trim(str) == TrimEnd(TrimStart(str))

NoToken == [type |-> "undefined"]
NoIndex == -1

\* start(src): src.match(/^\$\$/)?.index.
LatexStart(source) ==
    IF Len(source) >= 2 /\ source[1] = "$" /\ source[2] = "$" THEN 0 ELSE NoIndex

\* The positions j at which a closing '$$' can follow the opening one.
LatexClosings(source) ==
    {j \in 3..(Len(source) - 1) : source[j] = "$" /\ source[j + 1] = "$"}

Least(S) == CHOOSE j \in S : \A k \in S : j <= k
Greatest(S) == CHOOSE j \in S : \A k \in S : j >= k

\* /^\$\$([\s\S]*?)\$\$/.exec(src): the lazy group stops at the first closing
\* '$$'.  The match is [raw, group 1], or <<>> for null.
LatexRuleExecMut(source) ==
    IF LatexStart(source) = NoIndex \/ LatexClosings(source) = {} THEN <<>>
    ELSE LET j == Greatest(LatexClosings(source))
         IN  <<SubSeq(source, 1, j + 1), SubSeq(source, 3, j - 1)>>

LatexRuleExec(source) ==
    IF LatexStart(source) = NoIndex \/ LatexClosings(source) = {} THEN <<>>
    ELSE LET j == Least(LatexClosings(source))
         IN  <<SubSeq(source, 1, j + 1), SubSeq(source, 3, j - 1)>>

\* tokenizer(src) of the latexBlock extension.
LatexTokenizer(source) ==
    LET match == LatexRuleExec(source)
    IN  IF match = <<>> THEN NoToken
        ELSE [type |-> "latexBlock", raw |-> match[1], tokens |-> <<>>,
              text |-> Trim(match[2])]

MaxLatexSrc == 7

LatexChars == {"$", "x", " ", "\n"}

TokReturned(start, token) ==
    [state |-> "returned", start |-> start, token |-> token]

InitLatexTok ==
    /\ \E n \in 0..MaxLatexSrc : \E str \in StringsOfLen(LatexChars, n) :
          src = SubSeq(str, 1, n)
    /\ tokResult = [state |-> "pending"]
    /\ CssIdle
    /\ ThemeIdle
    /\ RenderIdle

\* The lexer asks the extension for its start index and for a token.
CallLatexTokenizer ==
    /\ tokResult.state = "pending"
    /\ tokResult' = TokReturned(LatexStart(src), LatexTokenizer(src))
    /\ UNCHANGED <<src, cssVars, themeVars, renderVars>>

NextLatexTok == CallLatexTokenizer

SpecLatexTok == InitLatexTok /\ [][NextLatexTok]_vars

(***************************************************************************)
(* C5: the formula block tokenizer emits a latexBlock token for src if and *)
(* only if src begins with '$$' and contains a later closing '$$'; raw is  *)
(* then the non-empty prefix of src from the opening '$$' through the      *)
(* first closing '$$' after it, and text is the content between the two    *)
(* delimiters with leading and trailing whitespace removed; otherwise no   *)
(* token is emitted and nothing is consumed.                               *)
(***************************************************************************)
IsDollars(str, j) == j >= 1 /\ j + 1 <= Len(str) /\ str[j] = "$" /\ str[j + 1] = "$"

\* text is content without its leading and trailing whitespace.
IsTrimOf(text, content) ==
    \E a \in 0..Len(content) :
        /\ a + Len(text) <= Len(content)
        /\ \A i \in 1..Len(text) : content[a + i] = text[i]
        /\ \A i \in 1..a : IsSpace(content[i])
        /\ \A i \in (a + Len(text) + 1)..Len(content) : IsSpace(content[i])
        /\ text # <<>> => ~IsSpace(text[1]) /\ ~IsSpace(text[Len(text)])

C5_LatexTokenIffDelimited ==
    tokResult.state = "returned" =>
        LET tok == tokResult.token
            delimited == IsDollars(src, 1) /\ \E j \in 3..Len(src) : IsDollars(src, j)
        IN  /\ (tok.type = "latexBlock") = delimited
            /\ ~delimited => tok = [type |-> "undefined"]
            /\ delimited =>
                 LET n == Len(tok.raw)
                 IN  /\ n >= 4 /\ n <= Len(src)
                     /\ \A i \in 1..n : tok.raw[i] = src[i]
                     /\ IsDollars(src, n - 1)
                     /\ \A j \in 3..(n - 2) : ~IsDollars(src, j)
                     /\ IsTrimOf(tok.text, SubSeq(src, 3, n - 2))

\* A source with padded content, a first closing '$$' and a later one.
C5_Witness ==
    /\ tokResult.state = "returned"
    /\ src = <<"$", "$", " ", "x", "$", "$", "$">>
    /\ tokResult.token.type = "latexBlock"
    /\ tokResult.token.raw = <<"$", "$", " ", "x", "$", "$">>
    /\ tokResult.token.text = <<"x">>

(***************************************************************************)
(* The diagram block tokenizer extension (mermaidBlock).  Its source is a  *)
(* sequence of atoms: the fence ```, the words the two regular expressions *)
(* name, the whitespace characters, and 'x' for any other text.            *)
(***************************************************************************)
\* The atom for three backticks.
Fence == "FENCE"

Keywords ==
    {"pie", "graph", "sequenceDiagram", "gantt", "classDiagram", "flowchart"}

AllSpace(str, from, to) == \A i \in from..to : IsSpace(str[i])

\* start(src): the index of
\* /^```(?:mermaid\s*$|[\s\n]*pie\s+|[\s\n]*graph\s+|...)/, without the m flag.
MermaidStart(source) ==
    LET n == Len(source)
        fenceFormat ==
            n >= 2 /\ source[2] = "mermaid" /\ AllSpace(source, 3, n)
        plainFormat ==
            \E k \in 2..(n - 1) :
                /\ AllSpace(source, 2, k - 1)
                /\ source[k] \in Keywords
                /\ IsSpace(source[k + 1])
    IN  IF n >= 1 /\ source[1] = Fence /\ (fenceFormat \/ plainFormat)
        THEN 0 ELSE NoIndex

\* The ends of (?:mermaid\s*\n): the newlines of the whitespace after 'mermaid'.
MermaidGroupEnds(source) ==
    IF Len(source) >= 2 /\ source[2] = "mermaid"
    THEN {k \in 3..Len(source) : source[k] = "\n" /\ AllSpace(source, 3, k)}
    ELSE {}

\* The end of (?:\s*\n|$) after a fence at f: 0 when neither alternative
\* matches.
MermaidTailEnd(source, f) ==
    LET ends == {k \in (f + 1)..Len(source) :
                    source[k] = "\n" /\ AllSpace(source, f + 1, k)}
    IN  IF ends # {} THEN Greatest(ends)
        ELSE IF f = Len(source) THEN f ELSE 0

\* The closing fences that can end the match.
MermaidClosings(source, from) ==
    {f \in from..Len(source) : source[f] = Fence /\ MermaidTailEnd(source, f) # 0}

\* The content starts the regular expression tries, in its order: after the
\* optional group (its longest end first), then without the group.
RECURSIVE Descending(_)
Descending(S) ==
    IF S = {} THEN <<>>
    ELSE <<Greatest(S) + 1>> \o Descending(S \ {Greatest(S)})

MermaidContentStarts(source) == Descending(MermaidGroupEnds(source)) \o <<2>>

\* /^```(?:mermaid\s*\n)?([\s\S]*?)\n*```(?:\s*\n|$)/.exec(src): [raw, group 1],
\* or <<>> for null.
MermaidRuleExec(source) ==
    IF source = <<>> \/ source[1] # Fence THEN <<>>
    ELSE LET starts == MermaidContentStarts(source)
             usable == {i \in 1..Len(starts) : MermaidClosings(source, starts[i]) # {}}
         IN  IF usable = {} THEN <<>>
             ELSE LET cs == starts[Least(usable)]
                      f == Least(MermaidClosings(source, cs))
                      \* the lazy group ends where the newlines before the fence begin
                      e == Least({k \in cs..f : \A i \in k..(f - 1) : source[i] = "\n"})
                  IN  <<SubSeq(source, 1, MermaidTailEnd(source, f)),
                        SubSeq(source, cs, e - 1)>>

\* content.match(/^(?:pie\s+|graph\s+|...)/).
IsMermaidContent(content) ==
    Len(content) >= 2 /\ content[1] \in Keywords /\ IsSpace(content[2])

\* tokenizer(src) of the mermaidBlock extension.
MermaidTokenizer(source) ==
    LET match == MermaidRuleExec(source)
    IN  IF match = <<>> THEN NoToken
        ELSE LET content == Trim(match[2])
             IN  IF ~IsMermaidContent(content) THEN NoToken
                 ELSE [type |-> "mermaidBlock", raw |-> match[1], tokens |-> <<>>,
                       text |-> IF content[1] = "pie"
                                THEN <<"pie", " ", "showData", "\n">>
                                     \o Trim(TrimStart(Tail(content)))
                                ELSE content]

MaxMermaidSrc == 7
MaxUnfencedSrc == 2

MermaidAtoms == {Fence, "mermaid", "graph", "pie", " ", "\n", "x"}

\* Both regular expressions are anchored at an opening fence, so the sources
\* that do not begin with one are kept short.
InitMermaidTok ==
    /\ \/ \E n \in 0..(MaxMermaidSrc - 1) : \E str \in StringsOfLen(MermaidAtoms, n) :
             src = <<Fence>> \o SubSeq(str, 1, n)
       \/ \E n \in 0..MaxUnfencedSrc : \E str \in StringsOfLen(MermaidAtoms, n) :
             src = SubSeq(str, 1, n)
    /\ tokResult = [state |-> "pending"]
    /\ CssIdle
    /\ ThemeIdle
    /\ RenderIdle

CallMermaidTokenizer ==
    /\ tokResult.state = "pending"
    /\ tokResult' = TokReturned(MermaidStart(src), MermaidTokenizer(src))
    /\ UNCHANGED <<src, cssVars, themeVars, renderVars>>

NextMermaidTok == CallMermaidTokenizer

SpecMermaidTok == InitMermaidTok /\ [][NextMermaidTok]_vars

(***************************************************************************)
(* C6: the diagram block detector supports both formats, a fence opened    *)
(* with ```mermaid and a plain ``` fence whose content is diagram source:  *)
(* for every src on which the tokenizer emits a mermaidBlock token,        *)
(* start(src) reports position 0, and the tokenizer emits a token exactly  *)
(* when src begins with a closed fenced block whose trimmed content starts *)
(* with one of the diagram keywords followed by whitespace.                *)
(***************************************************************************)
\* src begins with a fenced block from cs (its content start) to the fence f.
IsClosedBlock(str, cs, f) ==
    /\ str[1] = Fence
    /\ \/ cs = 2
       \/ cs >= 4 /\ str[2] = "mermaid" /\ str[cs - 1] = "\n" /\ AllSpace(str, 3, cs - 1)
    /\ f >= cs /\ str[f] = Fence
    /\ \/ f = Len(str)
       \/ \E k \in (f + 1)..Len(str) : str[k] = "\n" /\ AllSpace(str, f + 1, k)

StartsWithDiagramBlock(str) ==
    \E cs \in 2..Len(str), f \in 2..Len(str) :
        /\ IsClosedBlock(str, cs, f)
        /\ \A g \in cs..(f - 1) : ~IsClosedBlock(str, cs, g)
        /\ IsMermaidContent(Trim(SubSeq(str, cs, f - 1)))

C6_TokenIffDiagramBlock ==
    tokResult.state = "returned" =>
        (tokResult.token.type = "mermaidBlock") = StartsWithDiagramBlock(src)

C6_StartReportsEveryToken ==
    (tokResult.state = "returned" /\ tokResult.token.type = "mermaidBlock") =>
        tokResult.start = 0

\* C6: the diagram block detector supports both formats: start reports
\* position 0 on every source the tokenizer takes, and the tokenizer takes
\* exactly the sources that begin with a closed diagram block.
C6_BothFormatsDetected == C6_StartReportsEveryToken /\ C6_TokenIffDiagramBlock

(***************************************************************************)
(* MarkdownRenderer.  Rendered HTML is a sequence of units: a character,   *)
(* the markup katex returns for a formula, or an element with its tag, its *)
(* style attribute ('' when the attribute is left out) and its content.    *)
(***************************************************************************)
Ch(c) == [k |-> "ch", c |-> c]
KatexHtml(tex, displayMode) == [k |-> "katex", tex |-> tex, displayMode |-> displayMode]
Elem(tag, styleStr, content) ==
    [k |-> "elem", tag |-> tag, style |-> styleStr, content |-> content]

Chars(str) == [i \in 1..Len(str) |-> Ch(str[i])]

KeyDisplay == <<"d", "i", "s", "p", "l", "a", "y">>
KeyMargin == <<"m", "a", "r", "g", "i", "n">>
KeyTextAlign == <<"t", "e", "x", "t", "A", "l", "i", "g", "n">>
KeyBorderLeft == <<"b", "o", "r", "d", "e", "r", "L", "e", "f", "t">>
KeyFontStyle == <<"f", "o", "n", "t", "S", "t", "y", "l", "e">>
KeyFontWeight == <<"f", "o", "n", "t", "W", "e", "i", "g", "h", "t">>
KeyMaxWidth == <<"m", "a", "x", "W", "i", "d", "t", "h">>
KeyListStyle == <<"l", "i", "s", "t", "S", "t", "y", "l", "e">>
KeyPaddingLeft == <<"p", "a", "d", "d", "i", "n", "g", "L", "e", "f", "t">>
KeyMarginBottom == <<"m", "a", "r", "g", "i", "n", "B", "o", "t", "t", "o", "m">>
ValBlock == <<"b", "l", "o", "c", "k">>
Val1em0 == <<"1", "e", "m", " ", "0">>
ValCenter == <<"c", "e", "n", "t", "e", "r">>
ValTransparent == <<"t", "r", "a", "n", "s", "p", "a", "r", "e", "n", "t">>
Val4pxSolid == <<"4", "p", "x", " ", "s", "o", "l", "i", "d", " ">>
ValDefaultBorder == <<"#", "1", "a", "1", "a", "1", "a">>
ValItalic == <<"i", "t", "a", "l", "i", "c">>
ValBold == <<"b", "o", "l", "d">>
Val100Percent == <<"1", "0", "0", "%">>
ValHalfEmAuto == <<"0", ".", "5", "e", "m", " ", "a", "u", "t", "o">>
ValDecimal == <<"d", "e", "c", "i", "m", "a", "l">>
ValDisc == <<"d", "i", "s", "c">>
Val2em == <<"2", "e", "m">>
Val16px == <<"1", "6", "p", "x">>
Val8px == <<"8", "p", "x">>
ValListItem == <<"l", "i", "s", "t", "-", "i", "t", "e", "m">>

\* { ...obj, key: value }: a property the object has keeps its place and takes
\* the new value, undefined included; a new property is appended.
SetProp(obj, key, value) ==
    IF \E i \in 1..Len(obj) : obj[i].key = key
    THEN [i \in 1..Len(obj) |-> IF obj[i].key = key THEN Entry(key, value) ELSE obj[i]]
    ELSE Append(obj, Entry(key, value))

\* { ...obj, k1: v1, k2: v2, ... } for the properties listed in props.
RECURSIVE Spread(_, _)
Spread(obj, props) ==
    IF props = <<>> THEN obj
    ELSE Spread(SetProp(obj, props[1].key, props[1].value), Tail(props))

StyleString(entries) == cssPropertiesToString([kind |-> "object", entries |-> entries])

\* this.options.block?.[slot] || {} and this.options.inline?.[slot] || {}.
SlotStyle(options, slot) == options.styles[slot]

\* katex.renderToString throws on the formulas that hold a character of
\* katexBad (none when katexBad is empty).
KatexThrows(tex) == \E i \in 1..Len(tex) : tex[i] \in katexBad

KatexCall(tex, displayMode) ==
    [tex |-> tex, displayMode |-> displayMode, threw |-> KatexThrows(tex)]

\* A piece of rendered output with the katex calls made for it.
Piece(out, calls) == [out |-> out, calls |-> calls]
NoPiece == Piece(<<>>, <<>>)

\* Two pieces one after the other.
Cat(p, q) == Piece(p.out \o q.out, p.calls \o q.calls)

\* A piece wrapped in an element.
Wrap(tag, styleStr, before, p) == Piece(<<Elem(tag, styleStr, before \o p.out)>>, p.calls)

\* The first '$' after position i of text (0: none).
NextDollar(text, i) ==
    IF \E j \in (i + 1)..Len(text) : text[j] = "$"
    THEN Least({j \in (i + 1)..Len(text) : text[j] = "$"})
    ELSE 0

\* The match without the lookbehind (?<!\$).
InlineMatchEndMut(text, i) ==
    LET j == NextDollar(text, i)
    IN  IF /\ text[i] = "$"
           /\ j >= i + 2
           /\ \A m \in (i + 1)..(j - 1) : text[m] # "\n"
        THEN j ELSE 0

\* The end of a match of /(?<!\$)\$([^\n$]+?)\$/ at position i (0: no match).
InlineMatchEnd(text, i) ==
    LET j == NextDollar(text, i)
    IN  IF /\ text[i] = "$"
           /\ (i = 1 \/ text[i - 1] # "$")
           /\ j >= i + 2
           /\ \A m \in (i + 1)..(j - 1) : text[m] # "\n"
        THEN j ELSE 0

\* The replace callback of renderer.text: the katex markup of the formula, or
\* the match itself when katex throws.
InlineFormula(tex, match) ==
    Piece(IF KatexThrows(tex) THEN Chars(match) ELSE <<KatexHtml(tex, FALSE)>>,
          <<KatexCall(tex, FALSE)>>)

\* renderer.text: token.text.replace(/(?<!\$)\$([^\n$]+?)\$/g, callback), the
\* scan from position i on.
RECURSIVE ReplaceInline(_, _, _)
ReplaceInline(text, i, acc) ==
    IF i > Len(text) THEN acc
    ELSE LET j == InlineMatchEnd(text, i)
         IN  IF j = 0
             THEN ReplaceInline(text, i + 1, Cat(acc, Piece(<<Ch(text[i])>>, <<>>)))
             ELSE ReplaceInline(text, j + 1,
                                Cat(acc, InlineFormula(Trim(SubSeq(text, i + 1, j - 1)),
                                                       SubSeq(text, i, j))))

RendererText(text) == ReplaceInline(text, 1, NoPiece)

\* marked.Lexer.lexInline followed by marked.Parser.parseInline with this
\* renderer, on text without Markdown or HTML special characters: every run
\* of characters is one text token and goes through renderer.text; markup
\* already rendered passes through.
RECURSIVE ParseInlineUnits(_, _, _)
ParseInlineUnits(units, run, acc) ==
    IF units = <<>> THEN Cat(acc, RendererText(run))
    ELSE IF Head(units).k = "ch"
    THEN ParseInlineUnits(Tail(units), Append(run, Head(units).c), acc)
    ELSE ParseInlineUnits(Tail(units), <<>>,
                          Cat(Cat(acc, RendererText(run)), Piece(<<Head(units)>>, <<>>)))

ParseInline(text) == ParseInlineUnits(Chars(text), <<>>, NoPiece)

\* The style of a rendered formula block, in the latexBlock renderer and in
\* the list item.
LatexStyle(options) ==
    Spread(SlotStyle(options, "block.latex"),
           <<Entry(KeyDisplay, Str(ValBlock)), Entry(KeyMargin, Str(Val1em0)),
             Entry(KeyTextAlign, Str(ValCenter))>>)

\* The try block of the two display-formula renderers: the <div> around the
\* katex markup, or the raw text when katex throws.
DisplayFormula(options, tex, raw) ==
    Piece(IF KatexThrows(tex) THEN Chars(raw)
          ELSE <<Elem("div", StyleString(LatexStyle(options)), <<KatexHtml(tex, TRUE)>>)>>,
          <<KatexCall(tex, TRUE)>>)

\* The renderer of the latexBlock extension, a closure over its instance's
\* options.
LatexBlockRenderer(options, token) == DisplayFormula(options, token.text, token.raw)

\* The renderer of the mermaidBlock extension.
MermaidBlockRenderer(options, token) ==
    Piece(<<Elem("div.mermaid",
                 StyleString(Spread(SlotStyle(options, "block.mermaid"),
                     <<Entry(KeyDisplay, Str(ValBlock)), Entry(KeyMargin, Str(Val1em0)),
                       Entry(KeyTextAlign, Str(ValCenter)),
                       Entry(KeyBackground, Str(ValTransparent))>>)),
                 Chars(token.text))>>,
          <<>>)

\* The end of the first match of /\$\$([\s\S]+?)\$\$/ at position i: the
\* position of its closing '$$' (0: no match).
ListFormulaClose(text, i) ==
    LET closings == {j \in (i + 3)..(Len(text) - 1) : text[j] = "$" /\ text[j + 1] = "$"}
    IN  IF i + 1 <= Len(text) /\ text[i] = "$" /\ text[i + 1] = "$" /\ closings # {}
        THEN Least(closings) ELSE 0

\* renderer.listitem: (token.text || token.raw).replace(/\$\$([\s\S]+?)\$\$/g,
\* callback), the scan from position i on.
RECURSIVE ReplaceListFormulas(_, _, _, _)
ReplaceListFormulas(options, text, i, acc) ==
    IF i > Len(text) THEN acc
    ELSE LET j == ListFormulaClose(text, i)
         IN  IF j = 0
             THEN ReplaceListFormulas(options, text, i + 1,
                                      Cat(acc, Piece(<<Ch(text[i])>>, <<>>)))
             ELSE ReplaceListFormulas(options, text, j + 2,
                      Cat(acc, DisplayFormula(options, Trim(SubSeq(text, i + 2, j - 1)),
                                              SubSeq(text, i, j + 1))))

\* The checkbox markup of a task list item.
Checkbox(checked) == [k |-> "checkbox", checked |-> checked]

HeadingTags == <<"h1", "h2", "h3", "h4", "h5", "h6">>
HeadingSlots ==
    <<"block.h1", "block.h2", "block.h3", "block.h4", "block.h5", "block.h6">>

\* renderer.heading.
Heading(options, depth, text) ==
    LET styleObj == Spread(SlotStyle(options, HeadingSlots[depth]),
                           <<Entry(KeyColor, options.base.themeColor)>>)
    IN  Wrap(HeadingTags[depth], StyleString(styleObj), <<>>, ParseInline(text))

\* renderer.paragraph, for a paragraph whose tokens are one text token.
Paragraph(options, text) ==
    LET styleObj == Spread(SlotStyle(options, "block.p"),
                           <<Entry(KeyFontSize, options.base.fontSize),
                             Entry(KeyLineHeight, options.base.lineHeight)>>)
    IN  Wrap("p", StyleString(styleObj), <<>>, ParseInline(text))

\* renderer.blockquote.
Blockquote(options, text) ==
    LET themeColor == options.base.themeColor
        border == Val4pxSolid
                  \o (IF Truthy(themeColor) THEN themeColor.s ELSE ValDefaultBorder)
        styleObj == Spread(SlotStyle(options, "block.blockquote"),
                           <<Entry(KeyBorderLeft, Str(border))>>)
    IN  Wrap("blockquote", StyleString(styleObj), <<>>, ParseInline(text))

\* renderer.em.
Em(options, text) ==
    LET styleObj == Spread(SlotStyle(options, "inline.em"),
                           <<Entry(KeyFontStyle, Str(ValItalic))>>)
    IN  Wrap("em", StyleString(styleObj), <<>>, ParseInline(text))

\* renderer.strong.
Strong(options, text) ==
    LET styleObj == Spread(SlotStyle(options, "inline.strong"),
                           <<Entry(KeyColor, options.base.themeColor),
                             Entry(KeyFontWeight, Str(ValBold))>>)
    IN  Wrap("strong", StyleString(styleObj), <<>>, ParseInline(text))

\* renderer.image (its src, title and alt attributes are left out).
Image(options) ==
    LET styleObj == Spread(SlotStyle(options, "block.image"),
                           <<Entry(KeyMaxWidth, Str(Val100Percent)),
                             Entry(KeyDisplay, Str(ValBlock)),
                             Entry(KeyMargin, Str(ValHalfEmAuto))>>)
    IN  Piece(<<Elem("img", StyleString(styleObj), <<>>)>>, <<>>)

\* The inline markup of a processed text, after the katex calls made for it.
InlineAfter(processed) ==
    Cat(Piece(<<>>, processed.calls), ParseInlineUnits(processed.out, <<>>, NoPiece))

\* The map callback of renderer.listitem over item.tokens, for text and
\* paragraph tokens: the block formulas first, then the inline markup.
RECURSIVE ListItemTokens(_, _, _)
ListItemTokens(options, tokens, acc) ==
    IF tokens = <<>> THEN acc
    ELSE ListItemTokens(options, Tail(tokens),
             Cat(acc, InlineAfter(ReplaceListFormulas(options, Head(tokens), 1, NoPiece))))

\* renderer.listitem.  item.text is a sequence of units (renderer.list may
\* have put a checkbox in front); item.tokens, when present, are text tokens.
ListItem(options, item) ==
    LET styleObj == Spread(SlotStyle(options, "inline.listitem"),
                           <<Entry(KeyMarginBottom, Str(Val8px)),
                             Entry(KeyDisplay, Str(ValListItem))>>)
    IN  Wrap("li", StyleString(styleObj),
             IF item.task THEN <<Checkbox(item.checked)>> ELSE <<>>,
             IF item.hasTokens
             THEN ListItemTokens(options, item.tokens, NoPiece)
             ELSE ParseInlineUnits(item.text, <<>>, NoPiece))

\* The items of renderer.list: each through renderer.listitem, its text with
\* the checkbox in front for a task.
RECURSIVE ListItems(_, _, _)
ListItems(options, items, acc) ==
    IF items = <<>> THEN acc
    ELSE LET item == Head(items)
             itemText == (IF item.task THEN <<Checkbox(item.checked)>> ELSE <<>>)
                         \o item.text
         IN  ListItems(options, Tail(items),
                       Cat(acc, ListItem(options, [item EXCEPT !.text = itemText])))

\* renderer.list (the start attribute is left out).
List(options, token) ==
    LET tag == IF token.ordered THEN "ol" ELSE "ul"
        slot == IF token.ordered THEN "block.ol" ELSE "block.ul"
        styleObj == Spread(SlotStyle(options, slot),
                           <<Entry(KeyListStyle,
                                   Str(IF token.ordered THEN ValDecimal ELSE ValDisc)),
                             Entry(KeyPaddingLeft, Str(Val2em)),
                             Entry(KeyMarginBottom, Str(Val16px))>>)
    IN  Wrap(tag, StyleString(styleObj), <<>>, ListItems(options, token.items, NoPiece))

(***************************************************************************)
(* The shared marked instance.  marked.use({ extensions: [ext] }) puts the *)
(* extension's tokenizer in front of the block tokenizers, appends its     *)
(* start function, and wraps the renderer registered under the same name:  *)
(* the new renderer runs first and the previous one only when the new one  *)
(* returns false.  A renderer is named by the instance whose options its   *)
(* closure reads.                                                          *)
(***************************************************************************)
MarkedUse(registry, name, owner) ==
    [renderers |-> [registry.renderers EXCEPT ![name] = <<owner>> \o @],
     block |-> <<name>> \o registry.block,
     startBlock |-> Append(registry.startBlock, name)]

\* The instance whose closure renders a token of the extension: the first of
\* the chain, as the renderers of this program never return false.
ExtensionOwner(registry, name) == Head(registry.renderers[name])

MaxInstances == 2

\* new MarkdownRenderer(options).
Construct(options) ==
    /\ Len(instances) < MaxInstances
    /\ instances' = Append(instances, options)
    /\ extensions' =
          MarkedUse(MarkedUse(extensions, "latexBlock", Len(instances) + 1),
                    "mermaidBlock", Len(instances) + 1)
    /\ UNCHANGED <<katexBad, rendered, cssVars, themeVars, tokVars>>

\* The record of a node rendered through the shared marked instance with the
\* renderer object of instance `by`; `owner` is the instance whose options the
\* function that rendered it reads.
Rendered(kind, by, owner, input, piece) ==
    [kind |-> kind, by |-> by, owner |-> owner, input |-> input,
     out |-> piece.out, calls |-> piece.calls]

RenderUnchanged == UNCHANGED <<instances, extensions, katexBad, cssVars, themeVars, tokVars>>

RenderHeading(i, depth, text) ==
    /\ i <= Len(instances)
    /\ rendered' = Rendered("heading", i, i, <<depth, text>>, Heading(instances[i], depth, text))
    /\ RenderUnchanged

RenderParagraph(i, text) ==
    /\ i <= Len(instances)
    /\ rendered' = Rendered("paragraph", i, i, text, Paragraph(instances[i], text))
    /\ RenderUnchanged

RenderBlockquote(i, text) ==
    /\ i <= Len(instances)
    /\ rendered' = Rendered("blockquote", i, i, text, Blockquote(instances[i], text))
    /\ RenderUnchanged

RenderEm(i, text) ==
    /\ i <= Len(instances)
    /\ rendered' = Rendered("em", i, i, text, Em(instances[i], text))
    /\ RenderUnchanged

RenderStrong(i, text) ==
    /\ i <= Len(instances)
    /\ rendered' = Rendered("strong", i, i, text, Strong(instances[i], text))
    /\ RenderUnchanged

RenderImage(i) ==
    /\ i <= Len(instances)
    /\ rendered' = Rendered("image", i, i, <<>>, Image(instances[i]))
    /\ RenderUnchanged

RenderList(i, token) ==
    /\ i <= Len(instances)
    /\ rendered' = Rendered("list", i, i, token, List(instances[i], token))
    /\ RenderUnchanged

RenderListItem(i, item) ==
    /\ i <= Len(instances)
    /\ rendered' = Rendered("listitem", i, i, item, ListItem(instances[i], item))
    /\ RenderUnchanged

RenderText(i, text) ==
    /\ i <= Len(instances)
    /\ rendered' = Rendered("text", i, i, text, RendererText(text))
    /\ RenderUnchanged

\* A source the latexBlock tokenizer takes, rendered by the renderer the
\* registry holds for latexBlock tokens.
RenderLatexBlock(i, source) ==
    /\ i <= Len(instances)
    /\ LatexTokenizer(source) # NoToken
    /\ rendered' = Rendered("latexBlock", i, ExtensionOwner(extensions, "latexBlock"), source,
                            LatexBlockRenderer(
                                instances[ExtensionOwner(extensions, "latexBlock")],
                                LatexTokenizer(source)))
    /\ RenderUnchanged

RenderMermaidBlock(i, source) ==
    /\ i <= Len(instances)
    /\ MermaidTokenizer(source) # NoToken
    /\ rendered' = Rendered("mermaidBlock", i, ExtensionOwner(extensions, "mermaidBlock"),
                            source,
                            MermaidBlockRenderer(
                                instances[ExtensionOwner(extensions, "mermaidBlock")],
                                MermaidTokenizer(source)))
    /\ RenderUnchanged

(***************************************************************************)
(* Inputs of the renderer.                                                 *)
(***************************************************************************)
Blue == <<"#", "0", "0", "f">>
Val1Point6 == <<"1", ".", "6">>

Slots ==
    {HeadingSlots[d] : d \in 1..6}
    \cup {"block.p", "block.blockquote", "block.image", "block.ul", "block.ol",
          "block.latex", "block.mermaid", "inline.em", "inline.strong",
          "inline.listitem"}

StyleA ==
    <<Entry(KeyColor, Str(Red)), Entry(KeyFontSize, Num(140)),
      Entry(KeyLineHeight, Num(16))>>
StyleB == <<Entry(KeyColor, Str(Blue)), Entry(KeyMargin, Num(0))>>

BaseUnset == [themeColor |-> Undefined, fontSize |-> Undefined, lineHeight |-> Undefined]
BaseSet ==
    [themeColor |-> Str(Blue), fontSize |-> Str(Val16px), lineHeight |-> Str(Val1Point6)]

Options(base, slots, styleObj) ==
    [base |-> base,
     styles |-> [slot \in Slots |-> IF slot \in slots THEN styleObj ELSE <<>>]]

OptionsSet ==
    {Options(BaseUnset, Slots, StyleA), Options(BaseSet, Slots, StyleA),
     Options(BaseSet, {}, StyleA),
     Options(BaseUnset, {"block.h1", "block.latex", "block.mermaid"}, StyleB)}

SampleTexts == {<<"a">>, <<"$", "a", "$">>}

Item(text, hasTokens, task) ==
    [text |-> Chars(text), tokens |-> IF hasTokens THEN <<text>> ELSE <<>>,
     hasTokens |-> hasTokens, task |-> task, checked |-> FALSE]

SampleItems ==
    {Item(<<"a">>, TRUE, FALSE), Item(<<"$", "$", "a", "$", "$">>, TRUE, TRUE),
     Item(<<"$", "a", "$">>, FALSE, TRUE)}

SampleLatexSources == {<<"$", "$", "a", "$", "$">>, <<"$", "$", " ", "b", "$", "$", "\n">>}
SampleMermaidSources ==
    {<<Fence, "mermaid", "\n", "graph", " ", "x", "\n", Fence>>,
     <<Fence, "pie", " ", "x", Fence>>}

Init ==
    /\ instances = <<>>
    /\ extensions = NoExtensions
    /\ katexBad \in {{}, {"a"}}
    /\ rendered = [kind |-> "none"]
    /\ CssIdle
    /\ ThemeIdle
    /\ TokIdle

Next ==
    \/ \E options \in OptionsSet : Construct(options)
    \/ \E i \in 1..MaxInstances, depth \in 1..6, text \in SampleTexts :
          RenderHeading(i, depth, text)
    \/ \E i \in 1..MaxInstances, text \in SampleTexts : RenderParagraph(i, text)
    \/ \E i \in 1..MaxInstances, text \in SampleTexts : RenderBlockquote(i, text)
    \/ \E i \in 1..MaxInstances, text \in SampleTexts : RenderEm(i, text)
    \/ \E i \in 1..MaxInstances, text \in SampleTexts : RenderStrong(i, text)
    \/ \E i \in 1..MaxInstances : RenderImage(i)
    \/ \E i \in 1..MaxInstances, ordered \in BOOLEAN, item \in SampleItems :
          RenderList(i, [ordered |-> ordered, items |-> <<item>>])
    \/ \E i \in 1..MaxInstances, item \in SampleItems : RenderListItem(i, item)
    \/ \E i \in 1..MaxInstances, text \in SampleTexts : RenderText(i, text)
    \/ \E i \in 1..MaxInstances, source \in SampleLatexSources :
          RenderLatexBlock(i, source)
    \/ \E i \in 1..MaxInstances, source \in SampleMermaidSources :
          RenderMermaidBlock(i, source)

Spec == Init /\ [][Next]_vars

(***************************************************************************)
(* The three places that render a formula, on every short text, with one   *)
(* MarkdownRenderer constructed.                                           *)
(***************************************************************************)
MaxText == 7

FormulaChars == {"$", "a", "b", "\n"}
FormulaOptions == Options(BaseUnset, {"block.latex"}, StyleB)

\* The text to render is src; it is rendered once.
InitFormula ==
    /\ instances = <<FormulaOptions>>
    /\ extensions = MarkedUse(MarkedUse(NoExtensions, "latexBlock", 1), "mermaidBlock", 1)
    /\ katexBad \in {{}, {"a"}}
    /\ rendered = [kind |-> "none"]
    /\ \E n \in 0..MaxText : \E str \in StringsOfLen(FormulaChars, n) :
          src = SubSeq(str, 1, n)
    /\ tokResult = [state |-> "pending"]
    /\ CssIdle
    /\ ThemeIdle

NextFormula ==
    \/ rendered.kind = "none" /\ RenderText(1, src)
    \/ rendered.kind = "none" /\ RenderListItem(1, Item(src, TRUE, FALSE))
    \/ rendered.kind = "none" /\ RenderLatexBlock(1, src)

SpecFormula == InitFormula /\ [][NextFormula]_vars


(***************************************************************************)
(* C1: rendering is a stateless transform: the markup of a formula block   *)
(* or a diagram block rendered with an instance is the markup that         *)
(* instance's own block.latex / block.mermaid options give, whatever other *)
(* instances were constructed before or in between.                        *)
(***************************************************************************)
OwnBlockMarkup ==
    IF rendered.kind = "latexBlock"
    THEN LatexBlockRenderer(instances[rendered.by], LatexTokenizer(rendered.input)).out
    ELSE MermaidBlockRenderer(instances[rendered.by], MermaidTokenizer(rendered.input)).out

\* C1: a formula block or diagram block is rendered with the options of the
\* renderer in use, independently of the other instances constructed.
C1_BlockStyledByRendererInUse ==
    rendered.kind \in {"latexBlock", "mermaidBlock"} => rendered.out = OwnBlockMarkup

(***************************************************************************)
(* C2: at each of the three places a formula is rendered, a formula on     *)
(* which katex throws costs one katex call and is output as its raw text.  *)
(* The inputs considered are the ones that are one formula of the place.   *)
(***************************************************************************)
IsInlineFormula(text) == Len(text) >= 3 /\ InlineMatchEnd(text, 1) = Len(text)

IsListFormula(text) == Len(text) >= 5 /\ ListFormulaClose(text, 1) = Len(text) - 1

RawOnce(raw) == rendered.calls # <<>> /\ Len(rendered.calls) = 1 /\ raw

\* C2: when the formula renderer throws, it was called exactly once and the
\* output of the formula is its raw source text, delimiters included.
C2_ThrowFallsBackToRawOnce ==
    /\ (/\ rendered.kind = "text"
        /\ IsInlineFormula(rendered.input)
        /\ KatexThrows(Trim(SubSeq(rendered.input, 2, Len(rendered.input) - 1))))
       => RawOnce(rendered.out = Chars(rendered.input))
    /\ (/\ rendered.kind = "listitem"
        /\ rendered.input.hasTokens
        /\ IsListFormula(rendered.input.tokens[1])
        /\ KatexThrows(Trim(SubSeq(rendered.input.tokens[1], 3,
                                   Len(rendered.input.tokens[1]) - 2))))
       => RawOnce(rendered.out[1].content = Chars(rendered.input.tokens[1]))
    /\ (/\ rendered.kind = "latexBlock"
        /\ KatexThrows(LatexTokenizer(rendered.input).text))
       => RawOnce(rendered.out = Chars(LatexTokenizer(rendered.input).raw))

(***************************************************************************)
(* C7: every style property configured for a node kind appears in the      *)
(* style attribute of the element with its configured value, unless the    *)
(* renderer sets a defined value of its own for the property.              *)
(***************************************************************************)
StyledKinds ==
    {"heading", "paragraph", "blockquote", "em", "strong", "image", "list", "listitem",
     "latexBlock", "mermaidBlock"}

\* The options the rendered element was styled from: for the two extension
\* blocks, the options their registered renderer reads.
StyledFrom == instances[rendered.owner]

ConfiguredSlot ==
    CASE rendered.kind = "heading" -> HeadingSlots[rendered.input[1]]
      [] rendered.kind = "paragraph" -> "block.p"
      [] rendered.kind = "blockquote" -> "block.blockquote"
      [] rendered.kind = "em" -> "inline.em"
      [] rendered.kind = "strong" -> "inline.strong"
      [] rendered.kind = "image" -> "block.image"
      [] rendered.kind = "list" -> IF rendered.input.ordered THEN "block.ol" ELSE "block.ul"
      [] rendered.kind = "listitem" -> "inline.listitem"
      [] rendered.kind = "latexBlock" -> "block.latex"
      [] rendered.kind = "mermaidBlock" -> "block.mermaid"

\* The properties the renderer of the kind sets to a defined value.
IfSet(key, value) == IF value \in {Undefined, Null} THEN {} ELSE {key}

OwnProperties ==
    CASE rendered.kind = "heading" -> IfSet(KeyColor, StyledFrom.base.themeColor)
      [] rendered.kind = "paragraph" ->
            IfSet(KeyFontSize, StyledFrom.base.fontSize)
            \cup IfSet(KeyLineHeight, StyledFrom.base.lineHeight)
      [] rendered.kind = "blockquote" -> {KeyBorderLeft}
      [] rendered.kind = "em" -> {KeyFontStyle}
      [] rendered.kind = "strong" ->
            {KeyFontWeight} \cup IfSet(KeyColor, StyledFrom.base.themeColor)
      [] rendered.kind = "image" -> {KeyMaxWidth, KeyDisplay, KeyMargin}
      [] rendered.kind = "list" -> {KeyListStyle, KeyPaddingLeft, KeyMarginBottom}
      [] rendered.kind = "listitem" -> {KeyMarginBottom, KeyDisplay}
      [] rendered.kind = "latexBlock" -> {KeyDisplay, KeyMargin, KeyTextAlign}
      [] rendered.kind = "mermaidBlock" ->
            {KeyDisplay, KeyMargin, KeyTextAlign, KeyBackground}

StyleOfRendered == Segments(rendered.out[1].style)

\* C7: each configured property of the rendered element's kind that the
\* renderer does not set itself is in the style attribute with its value.
C7_ConfiguredStyleEmitted ==
    (rendered.kind \in StyledKinds /\ rendered.out # <<>> /\ rendered.out[1].k = "elem") =>
        \A n \in 1..Len(SlotStyle(StyledFrom, ConfiguredSlot)) :
            LET e == SlotStyle(StyledFrom, ConfiguredSlot)[n]
            IN  (Emitted(e) /\ e.key \notin OwnProperties) =>
                    \E m \in 1..Len(StyleOfRendered) : StyleOfRendered[m] = Declaration(e)


(***************************************************************************)
(* C11: the text override converts only inline formulas.  The spans it is  *)
(* said to replace are described here from the text alone: '$' content '$' *)
(* with the opening '$' not preceded by '$' and a non-empty content free   *)
(* of '$' and of newlines, taken left to right without overlap.            *)
(***************************************************************************)
IsInlineSpan(text, i, j) ==
    /\ text[i] = "$"
    /\ i = 1 \/ text[i - 1] # "$"
    /\ j >= i + 2
    /\ text[j] = "$"
    /\ \A m \in (i + 1)..(j - 1) : text[m] \notin {"$", "\n"}

InlineSpans(text) ==
    {s \in {<<i, j>> : i \in 1..Len(text), j \in 1..Len(text)} :
        s[2] >= s[1] + 2 /\ IsInlineSpan(text, s[1], s[2])}

\* The spans taken left to right from position p on: the leftmost one, then
\* the ones after its end.
RECURSIVE ChosenSpans(_, _)
ChosenSpans(text, p) ==
    LET later == {s \in InlineSpans(text) : s[1] >= p}
    IN  IF later = {} THEN {}
        ELSE LET first == CHOOSE s \in later : \A t \in later : s[1] <= t[1]
             IN  {first} \cup ChosenSpans(text, first[2] + 1)

SpanContent(text, s) == Trim(SubSeq(text, s[1] + 1, s[2] - 1))

\* What position p of the text gives in the output.
ExpectedAt(text, chosen, p) ==
    IF \E s \in chosen : s[1] = p
    THEN LET s == CHOOSE t \in chosen : t[1] = p
         IN  IF KatexThrows(SpanContent(text, s)) THEN Chars(SubSeq(text, s[1], s[2]))
             ELSE <<KatexHtml(SpanContent(text, s), FALSE)>>
    ELSE IF \E s \in chosen : s[1] < p /\ p <= s[2] THEN <<>>
    ELSE <<Ch(text[p])>>

RECURSIVE ExpectedFrom(_, _, _)
ExpectedFrom(text, chosen, p) ==
    IF p > Len(text) THEN <<>>
    ELSE ExpectedAt(text, chosen, p) \o ExpectedFrom(text, chosen, p + 1)

\* The k-th katex call is made for the k-th chosen span, in non-display mode.
CallsMatch(text, chosen, calls) ==
    /\ Len(calls) = Cardinality(chosen)
    /\ \A s \in chosen :
          LET k == 1 + Cardinality({t \in chosen : t[1] < s[1]})
          IN  /\ calls[k].tex = SpanContent(text, s)
              /\ calls[k].displayMode = FALSE

\* The output and the katex calls are the ones the chosen spans give.
AsExpected(text, chosen) ==
    /\ rendered.out = ExpectedFrom(text, chosen, 1)
    /\ CallsMatch(text, chosen, rendered.calls)

\* Every '$' of the text is one of two adjacent '$' with no third next to them.
OnlyDoubleDollars(text) ==
    \A i \in 1..Len(text) :
        text[i] = "$" =>
            \/ /\ i < Len(text) /\ text[i + 1] = "$"
               /\ i = 1 \/ text[i - 1] # "$"
            \/ /\ i > 1 /\ text[i - 1] = "$"
               /\ i = Len(text) \/ text[i + 1] # "$"

=============================================================================
